---- MODULE Spec2Model ----
(***************************************************************************)
(* Model of anagrams.py (word_anagrams and the functions it calls) and of  *)
(* its two callers, anagrams.main and example_1.anagram_prob_01.           *)
(*                                                                         *)
(* A string is a sequence of code points (97 = 'a', 32 = ' '), so that     *)
(* sorted(), str.join, slicing and list.sort() are computed, not assumed.  *)
(* A list or tuple is a sequence; a set or frozenset is a set.             *)
(***************************************************************************)
EXTENDS Integers, Sequences, FiniteSets, TLC

VARIABLES
    word_in,        \* the word argument as passed by the caller
    word,           \* the local variable word of word_anagrams
    word_list,      \* the word_list argument (only membership is ever used)
    method,         \* the method argument
    nprocs,         \* the nprocs argument
    word_list_set,  \* reduced_word_list(word, word_list)
    dividers,       \* the flattened tuple of dividers
    pc,             \* position of the call
    steps,          \* history: the computations carried out so far
    next_chunk,     \* pool: index of the next chunk in the pool's queue
    running,        \* pool: chunks held by workers
    processed,      \* how many times each work item was evaluated
    pop,            \* the list the strategy builds and word_anagrams returns
    anagrams,       \* main: the sorted, space-joined lines
    answer          \* anagram_prob_01: the returned pair

vars == <<word_in, word, word_list, method, nprocs, word_list_set, dividers,
          pc, steps, next_chunk, running, processed, pop, anagrams, answer>>

(* ------------------------------ bounds -------------------------------- *)

MaxWordLen == 3
MaxDictSize == 3
MaxProcs == 2

(* ------------------------- program constants -------------------------- *)

Space == 32
WordCentricChunkSize == 8
WordListCentricChunkSize == 1

(* --------------------------- sequence helpers ------------------------- *)

Range(s) == {s[i] : i \in DOMAIN s}

\* The concatenation of the sequences of ss, in order (halving keeps the
\* evaluation shallow).
RECURSIVE Flatten(_)
Flatten(ss) ==
    IF Len(ss) = 0 THEN <<>>
    ELSE IF Len(ss) = 1 THEN ss[1]
    ELSE LET h == Len(ss) \div 2
         IN  Flatten(SubSeq(ss, 1, h)) \o Flatten(SubSeq(ss, h + 1, Len(ss)))

Map(s, Op(_)) == [i \in 1..Len(s) |-> Op(s[i])]

\* Python slice s[a:b] for 0 <= a <= b <= len(s).
Slice(s, a, b) == SubSeq(s, a + 1, b)

\* Number of occurrences of c in s.
RECURSIVE Count(_, _)
Count(c, s) ==
    IF Len(s) = 0 THEN 0
    ELSE (IF Head(s) = c THEN 1 ELSE 0) + Count(c, Tail(s))

\* s < t and s <= t as Python compares str: code point by code point.
RECURSIVE LexLess(_, _)
LexLess(s, t) ==
    IF Len(t) = 0 THEN FALSE
    ELSE IF Len(s) = 0 THEN TRUE
    ELSE IF Head(s) # Head(t) THEN Head(s) < Head(t)
    ELSE LexLess(Tail(s), Tail(t))

\* x < y between two str ("str") or between two characters ("chr").
Less(kind, x, y) == IF kind = "str" THEN LexLess(x, y) ELSE x < y

\* sorted(s) and list.sort(): the elements of s in ascending order.
Sorted(s, kind) == SortSeq(s, LAMBDA x, y : Less(kind, x, y))

\* The elements of a set of strings as a list (iteration order of a set:
\* one fixed order per run; the ascending one is taken).
RECURSIVE SetToList(_)
SetToList(S) ==
    IF S = {} THEN <<>>
    ELSE LET m == CHOOSE x \in S : \A y \in S : y = x \/ LexLess(x, y)
         IN  <<m>> \o SetToList(S \ {m})

(* ------------------------------ str methods --------------------------- *)

Whitespace == {Space}

\* word.split(): the maximal runs of non-whitespace characters.
RECURSIVE split(_)
split(s) ==
    IF Len(s) = 0 THEN <<>>
    ELSE IF Head(s) \in Whitespace THEN split(Tail(s))
    ELSE LET rest == split(Tail(s))
         IN  IF Len(s) > 1 /\ s[2] \notin Whitespace
             THEN <<(<<Head(s)>> \o Head(rest))>> \o Tail(rest)
             ELSE <<(<<Head(s)>>)>> \o rest

\* sep.join(parts)
RECURSIVE join(_, _)
join(sep, parts) ==
    IF Len(parts) = 0 THEN <<>>
    ELSE IF Len(parts) = 1 THEN Head(parts)
    ELSE Head(parts) \o sep \o join(sep, Tail(parts))

(* ------------------------------ itertools ----------------------------- *)

\* Whether index j may follow the index tuple p.
Allowed(rule, p, j) ==
    CASE rule = "permutation" -> j \notin Range(p)
      [] rule = "combination" -> Len(p) = 0 \/ p[Len(p)] < j
      [] rule = "combination_with_replacement" -> Len(p) = 0 \/ p[Len(p)] <= j
      [] OTHER -> TRUE

\* The ways to extend an index tuple p by one index of 1..n that the rule
\* allows, in ascending order of the new index.
Extend(p, n, rule) ==
    LET cand == SelectSeq([j \in 1..n |-> j], LAMBDA j : Allowed(rule, p, j))
    IN  [i \in 1..Len(cand) |-> Append(p, cand[i])]

\* The r-tuples of indices of 1..n the rule allows, in lexicographic order.
RECURSIVE IndexTuples(_, _, _)
IndexTuples(n, r, rule) ==
    IF r = 0 THEN << <<>> >>
    ELSE Flatten(Map(IndexTuples(n, r - 1, rule), LAMBDA p : Extend(p, n, rule)))

Pick(s, p) == [i \in 1..Len(p) |-> s[p[i]]]

product_with_repeat(s, r) ==
    Map(IndexTuples(Len(s), r, "product"), LAMBDA p : Pick(s, p))

\* itertools.permutations(s, r): the r-length orderings of the positions of
\* s, in lexicographic order of positions; equal letters are not merged.
permutations(s, r) ==
    Map(IndexTuples(Len(s), r, "permutation"), LAMBDA p : Pick(s, p))

combinations_with_replacement(s, k) ==
    Map(IndexTuples(Len(s), k, "combination_with_replacement"),
        LAMBDA p : Pick(s, p))

\* itertools.combinations(s, k): the k-length subsequences of s, in
\* lexicographic order of positions.
combinations(s, k) ==
    Map(IndexTuples(Len(s), k, "combination"), LAMBDA p : Pick(s, p))

\* range(a, b) as a list.
range(a, b) == [i \in 1..(IF b > a THEN b - a ELSE 0) |-> a + i - 1]

\* itertools.product(*bins): one element of every bin, last bin fastest.
RECURSIVE product(_)
product(bins) ==
    IF Len(bins) = 0 THEN << <<>> >>
    ELSE LET last == bins[Len(bins)]
         IN  Flatten(Map(product(SubSeq(bins, 1, Len(bins) - 1)),
                         LAMBDA p : [i \in 1..Len(last) |-> Append(p, last[i])]))

(* ------------------------------ anagrams.py --------------------------- *)

\* Without the word_length appended: the last part is lost.
div_to_integer_partition_no_end(divider, word_length) ==
    LET augmented_divider == <<0>> \o divider
    IN  [i \in 1..(Len(augmented_divider) - 1) |->
            augmented_divider[i + 1] - augmented_divider[i]]

\* augmented_divider = (0,) + divider + (word_length,); its differences.
div_to_integer_partition(divider, word_length) ==
    LET augmented_divider == <<0>> \o divider \o <<word_length>>
    IN  [i \in 1..(Len(augmented_divider) - 1) |->
            augmented_divider[i + 1] - augmented_divider[i]]

\* word_choice_bins = tuple(word_list_by_length[j] for j in integer_partition)
ip_to_word_partitions(integer_partition, word_list_by_length) ==
    product(Map(integer_partition, LAMBDA j : word_list_by_length[j]))

\* ''.join(word_partition) left unsorted.
wp_to_comparable_form_unsorted(word_partition) ==
    join(<<>>, word_partition)

\* ''.join(sorted(''.join(word_partition)))
wp_to_comparable_form(word_partition) ==
    join(<<>>, Map(Sorted(join(<<>>, word_partition), "chr"), LAMBDA c : <<c>>))

\* The word-partition one divider cuts out of w.
divider_to_word_partition(w, div) ==
    IF Len(div) <= 0 THEN <<w>>
    ELSE <<Slice(w, 0, div[1])>>
         \o [i \in 1..(Len(div) - 1) |-> Slice(w, div[i], div[i + 1])]
         \o <<Slice(w, div[Len(div)], Len(w))>>

dividers_to_word_partitions(w, divs) ==
    Map(divs, LAMBDA div : divider_to_word_partition(w, div))

\* Keeps a word-partition as soon as its first string is in the set.
ordered_word_anagrams_first_only(w, wls, divs) ==
    SelectSeq(dividers_to_word_partitions(w, divs),
              LAMBDA wp : wp[1] \in wls)

\* word_list_set.issuperset(wp)
ordered_word_anagrams(w, wls, divs) ==
    SelectSeq(dividers_to_word_partitions(w, divs),
              LAMBDA wp : Range(wp) \subseteq wls)

div_to_anagrams(divider, word_list_by_length, word_length, comparable_form_of_word) ==
    SelectSeq(ip_to_word_partitions(
                  div_to_integer_partition(divider, word_length),
                  word_list_by_length),
              LAMBDA wp : wp_to_comparable_form(wp) = comparable_form_of_word)

\* for i in range(1, len(word) + 1): the whole length is tried as well.
reduced_word_list_through_len(w, wl) ==
    UNION {Range(permutations(w, i)) \cap wl : i \in Range(range(1, Len(w) + 1))}

\* Letters drawn with repetition of positions.
reduced_word_list_with_repeat(w, wl) ==
    UNION {Range(product_with_repeat(w, i)) \cap wl : i \in Range(range(1, Len(w)))}

\* for i in range(1, len(word)): frozenset(permutations(word, i)) & word_list
reduced_word_list(w, wl) ==
    UNION {Range(permutations(w, i)) \cap wl : i \in Range(range(1, Len(w)))}

\* k in range(1, len(word)): the 0-divider is left out.
k_divider_sets_from_one(w) ==
    Map(range(1, Len(w)), LAMBDA k : combinations(range(1, Len(w)), k))

\* Cut positions drawn with replacement.
k_divider_sets_with_replacement(w) ==
    Map(range(0, Len(w)),
        LAMBDA k : combinations_with_replacement(range(1, Len(w)), k))

\* tuple(combinations(range(1, len(word)), k) for k in range(len(word)))
k_divider_sets(w) ==
    Map(range(0, Len(w)), LAMBDA k : combinations(range(1, Len(w)), k))

\* Only word_list_centric is registered.
anagram_methods_one == {"word_list_centric"}

\* The keys of the anagram_methods dict.
anagram_methods == {"word_centric", "word_list_centric"}

\* defaultdict(list) filled from word_list_set, read at the part lengths.
word_list_by_length(wls, word_length) ==
    [j \in 0..word_length |-> SetToList({w \in wls : Len(w) = j})]

\* The iterable handed to the strategy's per-item function.
WorkItems(m, w, divs) ==
    IF m = "word_centric" THEN permutations(w, Len(w)) ELSE divs

\* owas(item) or dtas(item): the per-item function of the strategy.
ItemResult(m, w, wls, divs, item) ==
    IF m = "word_centric"
    THEN ordered_word_anagrams(item, wls, divs)
    ELSE div_to_anagrams(item, word_list_by_length(wls, Len(w)), Len(w),
                         wp_to_comparable_form(<<w>>))

\* pop = [item for sublist in (f(x) for x in items) for item in sublist]
SequentialRun(m, w, wls, divs) ==
    Flatten(Map(WorkItems(m, w, divs),
                LAMBDA item : ItemResult(m, w, wls, divs, item)))

chunk_size(m) ==
    IF m = "word_centric" THEN WordCentricChunkSize ELSE WordListCentricChunkSize

\* The last item of every chunk is dropped.
ChunkItemsShort(c, n, size) ==
    {i \in 1..n : (c - 1) * size < i /\ i < c * size}

\* imap_unordered with a chunk size: chunk c holds items (c-1)*size+1 .. c*size of the n items.
ChunkItems(c, n, size) ==
    {i \in 1..n : (c - 1) * size < i /\ i <= c * size}

NumChunks(n, size) == (n + size - 1) \div size

(* ------------------------------ callers ------------------------------- *)

\* max(anagrams, key=len): the first element of the greatest length.
max_by_len(s) ==
    s[CHOOSE i \in 1..Len(s) :
          /\ \A j \in 1..Len(s) : Len(s[j]) <= Len(s[i])
          /\ \A j \in 1..(i - 1) : Len(s[j]) < Len(s[i])]

\* example_1.anagram_prob_01 applied to the list word_anagrams returned.
anagram_prob_01(returned) ==
    LET single_two_word_anagrams == SelectSeq(returned, LAMBDA pa : Len(pa) = 2)
    IN  IF Len(single_two_word_anagrams) > 0
        THEN <<join(<<Space>>, max_by_len(returned)),
               join(<<Space>>, single_two_word_anagrams[1])>>
        ELSE << <<>>, <<>> >>

\* main: [' '.join(anagram) for anagram in anagrams], then anagrams.sort()
main_lines(returned) ==
    Sorted(Map(returned, LAMBDA anagram : join(<<Space>>, anagram)), "str")

(* ------------------------------- inputs ------------------------------- *)

Letters == {97, 98}

RECURSIVE StringsOfLen(_, _)
StringsOfLen(S, n) ==
    IF n = 0 THEN {<<>>}
    ELSE {Append(s, c) : s \in StringsOfLen(S, n - 1), c \in S}

StringsUpTo(S, n) == UNION {StringsOfLen(S, k) : k \in 0..n}

\* Words as a caller may pass them: letters and whitespace.
Words == StringsUpTo(Letters \cup Whitespace, MaxWordLen)

\* The lines a word-list file may hold: '', a, b, aa, ab, ba, bb, aba.
Entries ==
    {<<>>, <<97>>, <<98>>, <<97, 97>>, <<97, 98>>, <<98, 97>>, <<98, 98>>,
     <<97, 98, 97>>}

\* Word lists of a few lines.
WordLists == {wl \in SUBSET Entries : Cardinality(wl) <= MaxDictSize}

\* The two method names, and one that is not registered.
Methods == {"word_centric", "word_list_centric", "permutation_centric"}

\* The worked example: 'eat' against eat, ate, tea, ea, at, e, a, t.
Eat == <<101, 97, 116>>
EatWordList ==
    {<<101, 97, 116>>, <<97, 116, 101>>, <<116, 101, 97>>, <<101, 97>>,
     <<97, 116>>, <<101>>, <<97>>, <<116>>}

\* 'aabb': 24 permutations, which is three chunks of work for word_centric.
Aabb == <<97, 97, 98, 98>>

(* ---------------------------- state machine --------------------------- *)

Start(w, wl, m, n) ==
    /\ word_in = w /\ word = w /\ word_list = wl /\ method = m /\ nprocs = n
    /\ word_list_set = {} /\ dividers = <<>>
    /\ pc = "called" /\ steps = {}
    /\ next_chunk = 1 /\ running = {} /\ processed = <<>>
    /\ pop = <<>> /\ anagrams = <<>> /\ answer = << <<>>, <<>> >>

\* Every small word against every small word list, evaluated in the calling
\* process; every small word against the whole of Entries on a pool; the two
\* examples either way.
Init ==
    \/ \E w \in Words, wl \in WordLists, m \in Methods : Start(w, wl, m, 1)
    \/ \E w \in Words, m \in Methods, n \in 2..MaxProcs : Start(w, Entries, m, n)
    \/ \E m \in Methods, n \in 1..MaxProcs :
           \/ Start(Eat, EatWordList, m, n)
           \/ Start(Aabb, Entries, m, n)

\* word = ''.join(word.split())
StripWhitespace ==
    /\ pc = "called"
    /\ word' = join(<<>>, split(word))
    /\ pc' = "stripped" /\ steps' = steps \cup {"strip"}
    /\ UNCHANGED <<word_in, word_list, method, nprocs, word_list_set, dividers,
                   next_chunk, running, processed, pop, anagrams, answer>>

\* word_list_set = reduced_word_list(word, word_list)
ReduceWordList ==
    /\ pc = "stripped"
    /\ word_list_set' = reduced_word_list(word, word_list)
    /\ pc' = "reduced" /\ steps' = steps \cup {"reduce"}
    /\ UNCHANGED <<word_in, word, word_list, method, nprocs, dividers,
                   next_chunk, running, processed, pop, anagrams, answer>>

\* k_divider_sets, then dividers: its flattening
EnumerateDividers ==
    /\ pc = "reduced"
    /\ dividers' = Flatten(k_divider_sets(word))
    /\ pc' = "enumerated" /\ steps' = steps \cup {"enumerate"}
    /\ UNCHANGED <<word_in, word, word_list, method, nprocs, word_list_set,
                   next_chunk, running, processed, pop, anagrams, answer>>

\* anagram_method = anagram_methods[method], the key being present; the
\* strategy is entered and its per-item function and work items are set up.
SelectMethod ==
    /\ pc = "enumerated"
    /\ method \in anagram_methods
    /\ processed' = [i \in 1..Len(WorkItems(method, word, dividers)) |-> 0]
    /\ pc' = "selected"
    /\ UNCHANGED <<word_in, word, word_list, method, nprocs, word_list_set,
                   dividers, steps, next_chunk, running, pop, anagrams, answer>>

\* anagram_methods[method] raises KeyError.
RaiseKeyError ==
    /\ pc = "enumerated"
    /\ method \notin anagram_methods
    /\ pc' = "raised"
    /\ UNCHANGED <<word_in, word, word_list, method, nprocs, word_list_set,
                   dividers, steps, next_chunk, running, processed, pop,
                   anagrams, answer>>

\* nprocs <= 1: the items are evaluated in order in the calling process.
RunSequential ==
    /\ pc = "selected"
    /\ nprocs <= 1
    /\ pop' = SequentialRun(method, word, word_list_set, dividers)
    /\ processed' = [i \in DOMAIN processed |-> processed[i] + 1]
    /\ pc' = "returned" /\ steps' = steps \cup {"dispatch"}
    /\ UNCHANGED <<word_in, word, word_list, method, nprocs, word_list_set,
                   dividers, next_chunk, running, anagrams, answer>>

\* A free worker of the pool takes the next chunk off the queue.
WorkerTake ==
    /\ pc = "selected"
    /\ nprocs > 1
    /\ Cardinality(running) < nprocs
    /\ next_chunk <= NumChunks(Len(processed), chunk_size(method))
    /\ running' = running \cup {next_chunk}
    /\ next_chunk' = next_chunk + 1
    /\ steps' = steps \cup {"dispatch"}
    /\ UNCHANGED <<word_in, word, word_list, method, nprocs, word_list_set,
                   dividers, pc, processed, pop, anagrams, answer>>

\* A worker finishes its chunk; imap_unordered yields the chunk's results,
\* in item order, and the flattening appends them to pop.
WorkerFinish(c) ==
    /\ pc = "selected"
    /\ nprocs > 1
    /\ c \in running
    /\ LET items == WorkItems(method, word, dividers)
           mine == ChunkItems(c, Len(items), chunk_size(method))
           done == SelectSeq([i \in 1..Len(items) |-> i], LAMBDA i : i \in mine)
       IN  /\ pop' = pop \o Flatten(Map(done, LAMBDA i :
                        ItemResult(method, word, word_list_set, dividers, items[i])))
           /\ processed' = [i \in DOMAIN processed |->
                               IF i \in mine THEN processed[i] + 1 ELSE processed[i]]
    /\ running' = running \ {c}
    /\ UNCHANGED <<word_in, word, word_list, method, nprocs, word_list_set,
                   dividers, pc, steps, next_chunk, anagrams, answer>>

\* The result iterator is exhausted: every chunk was taken and finished.
PoolDone ==
    /\ pc = "selected"
    /\ nprocs > 1
    /\ next_chunk > NumChunks(Len(processed), chunk_size(method))
    /\ running = {}
    /\ pc' = "returned" /\ steps' = steps \cup {"dispatch"}
    /\ UNCHANGED <<word_in, word, word_list, method, nprocs, word_list_set,
                   dividers, next_chunk, running, processed, pop, anagrams, answer>>

\* The caller is anagrams.main: join, sort.
MainFormat ==
    /\ pc = "returned"
    /\ anagrams' = main_lines(pop)
    /\ pc' = "written"
    /\ UNCHANGED <<word_in, word, word_list, method, nprocs, word_list_set,
                   dividers, steps, next_chunk, running, processed, pop, answer>>

\* The caller is example_1.anagram_prob_01.
AnagramProb01 ==
    /\ pc = "returned"
    /\ answer' = anagram_prob_01(pop)
    /\ pc' = "answered"
    /\ UNCHANGED <<word_in, word, word_list, method, nprocs, word_list_set,
                   dividers, steps, next_chunk, running, processed, pop, anagrams>>

Next ==
    \/ StripWhitespace
    \/ ReduceWordList
    \/ EnumerateDividers
    \/ SelectMethod
    \/ RaiseKeyError
    \/ RunSequential
    \/ WorkerTake
    \/ \E c \in running : WorkerFinish(c)
    \/ PoolDone
    \/ MainFormat
    \/ AnagramProb01

Spec == Init /\ [][Next]_vars

(* ============================== properties ============================ *)

\* word_anagrams has returned (the list is in pop).
Returned == pc \in {"returned", "written", "answered"}
Reduced == pc \notin {"called", "stripped"}
Enumerated == Reduced /\ pc # "reduced"

\* The argument with every whitespace character removed.
Stripped(w) == SelectSeq(w, LAMBDA c : c \notin Whitespace)

SameLetters(s, t) == \A c \in Range(s) \cup Range(t) : Count(c, s) = Count(c, t)
SubMultiset(s, t) == \A c \in Range(s) : Count(c, s) <= Count(c, t)

RECURSIVE Sum(_)
Sum(s) == IF Len(s) = 0 THEN 0 ELSE Head(s) + Sum(Tail(s))

RECURSIVE Pow2(_)
Pow2(n) == IF n = 0 THEN 1 ELSE 2 * Pow2(n - 1)

\* n choose k, by Pascal's rule.
RECURSIVE Choose(_, _)
Choose(n, k) ==
    IF k < 0 \/ k > n THEN 0
    ELSE IF k = 0 \/ k = n THEN 1
    ELSE Choose(n - 1, k - 1) + Choose(n - 1, k)

OtherMethod(m) == IF m = "word_centric" THEN "word_list_centric" ELSE "word_centric"

(* C1: whatever the word and the word list, the list returned under one     *)
(* method holds the same set of word sequences as the other method yields   *)
(* for the same word, reduced word list and dividers; order and             *)
(* multiplicity are ignored.                                                *)
C1_StrategiesAgree ==
    Returned =>
        Range(pop) = Range(SequentialRun(OtherMethod(method), word,
                                         word_list_set, dividers))

\* A word with a repeated letter, for which word_centric returns a sequence
\* more than once, and more than one sequence.
C1_Witness ==
    /\ Returned /\ method = "word_centric" /\ nprocs <= 1
    /\ Cardinality(Range(pop)) >= 2
    /\ Len(pop) > Cardinality(Range(pop))

(* C2: on a pool (nprocs > 1), whatever the order in which the workers      *)
(* finish, every work item is evaluated exactly once and the list returned  *)
(* holds the same set of word sequences as the sequential path gives.       *)
C2_PoolAgreesWithSequential ==
    (Returned /\ nprocs > 1) =>
        /\ Len(processed) = Len(WorkItems(method, word, dividers))
        /\ \A i \in DOMAIN processed : processed[i] = 1
        /\ Range(pop) = Range(SequentialRun(method, word, word_list_set, dividers))

\* A pool run whose results arrived in another order than the sequential one.
C2_Witness ==
    /\ Returned /\ nprocs > 1
    /\ Len(processed) > 1
    /\ pop # SequentialRun(method, word, word_list_set, dividers)

EatExpected ==
    {<<(<<101>>), <<97, 116>>>>, <<(<<101, 97>>), <<116>>>>,
     <<(<<97, 116>>), <<101>>>>, <<(<<116>>), <<101, 97>>>>,
     <<(<<101>>), <<97>>, <<116>>>>, <<(<<101>>), <<116>>, <<97>>>>,
     <<(<<97>>), <<101>>, <<116>>>>, <<(<<97>>), <<116>>, <<101>>>>,
     <<(<<116>>), <<97>>, <<101>>>>, <<(<<116>>), <<101>>, <<97>>>>}

\* a e t, a t e, at e, e a t, e at, e t a, ea t, t a e, t e a, t ea
EatLines ==
    << <<97, 32, 101, 32, 116>>, <<97, 32, 116, 32, 101>>, <<97, 116, 32, 101>>,
       <<101, 32, 97, 32, 116>>, <<101, 32, 97, 116>>, <<101, 32, 116, 32, 97>>,
       <<101, 97, 32, 116>>, <<116, 32, 97, 32, 101>>, <<116, 32, 101, 32, 97>>,
       <<116, 32, 101, 97>> >>

C4_ReturnedSequencesAreAnagrams ==
    Returned =>
        \A i \in DOMAIN pop :
            /\ \A j \in DOMAIN pop[i] :
                   Len(pop[i][j]) > 0 /\ pop[i][j] \in word_list
            /\ SameLetters(Flatten(pop[i]), Stripped(word_in))

\* Something is returned for a word given with whitespace, against a word
\* list that holds an empty line.
C4_Witness ==
    /\ Returned /\ Len(pop) > 0
    /\ word_in # Stripped(word_in)
    /\ <<>> \in word_list

StrictlyIncreasing(d) == \A i \in 1..(Len(d) - 1) : d[i] < d[i + 1]

(* C6: for a word of length L >= 1 the dividers are 2^(L-1) in number,      *)
(* pairwise distinct, each strictly increasing with entries in (0, L), and  *)
(* the empty divider is among them; for L = 1 it is the only one.           *)
C6_DividersEnumerated ==
    (Enumerated /\ Len(word) >= 1) =>
        /\ Len(dividers) = Pow2(Len(word) - 1)
        /\ Cardinality(Range(dividers)) = Len(dividers)
        /\ \A i \in DOMAIN dividers :
               /\ StrictlyIncreasing(dividers[i])
               /\ \A j \in DOMAIN dividers[i] :
                      0 < dividers[i][j] /\ dividers[i][j] < Len(word)
        /\ <<>> \in Range(dividers)
        /\ Len(word) = 1 => dividers = << <<>> >>

C6_Witness ==
    /\ pc = "enumerated" /\ Len(word) >= 3
    /\ \E i \in DOMAIN dividers : Len(dividers[i]) = Len(word) - 1

PrefixSums(ip) == [i \in 1..Len(ip) |-> Sum(SubSeq(ip, 1, i))]

(* C7: for every divider d enumerated for a word of length L >= 1, the      *)
(* integer partition of d has len(d) + 1 parts, all positive, summing to L; *)
(* d is the prefix sums of the partition without the last one; distinct     *)
(* dividers have distinct partitions.                                       *)
C7_PartitionRoundTrip ==
    (Enumerated /\ Len(word) >= 1) =>
        /\ \A i \in DOMAIN dividers :
               LET d == dividers[i]
                   ip == div_to_integer_partition(d, Len(word))
               IN  /\ Len(ip) = Len(d) + 1
                   /\ \A j \in DOMAIN ip : ip[j] > 0
                   /\ Sum(ip) = Len(word)
                   /\ SubSeq(PrefixSums(ip), 1, Len(ip) - 1) = d
        /\ \A i, j \in DOMAIN dividers :
               dividers[i] # dividers[j] =>
                   div_to_integer_partition(dividers[i], Len(word))
                       # div_to_integer_partition(dividers[j], Len(word))

C7_Witness ==
    /\ pc = "enumerated"
    /\ \E i \in DOMAIN dividers :
           /\ Len(dividers[i]) >= 2
           /\ \E j \in DOMAIN dividers[i] :
                  div_to_integer_partition(dividers[i], Len(word))[j] >= 2

(* C8 as claimed: with an unknown method name the call fails before the     *)
(* reduced word list is built, before the dividers are enumerated and       *)
(* before any strategy work is dispatched.                                  *)
C8_FailsBeforeAnyComputation ==
    pc = "raised" => steps \cap {"reduce", "enumerate", "dispatch"} = {}

(* C8 amended: with a method name outside {word_centric, word_list_centric} *)
(* the call fails once the word is stripped, the reduced word list built    *)
(* and the dividers enumerated, and before any strategy work is dispatched: *)
(* no work item is evaluated and nothing is returned; with a name of the    *)
(* set it never fails.                                                      *)
C8_FailsBeforeDispatch ==
    /\ pc = "raised" =>
           /\ method \notin {"word_centric", "word_list_centric"}
           /\ steps = {"strip", "reduce", "enumerate"}
           /\ word_list_set = reduced_word_list(Stripped(word_in), word_list)
           /\ processed = <<>> /\ pop = <<>> /\ running = {}
    /\ method \notin {"word_centric", "word_list_centric"} =>
           pc \in {"called", "stripped", "reduced", "enumerated", "raised"}

C8_Witness ==
    /\ pc = "raised" /\ word_list_set # {} /\ Len(dividers) > 1

(* C9 as claimed: anagram_prob_01 returns two empty strings only when no    *)
(* anagram of two or more words was found; otherwise its first component is *)
(* the joined form of an anagram with the most words and its second one a   *)
(* two-word anagram if there is one.                                        *)
C9_AnagramProb01 ==
    pc = "answered" =>
        LET several == {i \in DOMAIN pop : Len(pop[i]) >= 2}
            two == {i \in DOMAIN pop : Len(pop[i]) = 2}
        IN  /\ answer = << <<>>, <<>> >> => several = {}
            /\ several # {} =>
                   \E i \in several :
                       /\ \A j \in DOMAIN pop : Len(pop[j]) <= Len(pop[i])
                       /\ answer[1] = join(<<Space>>, pop[i])
            /\ two # {} => \E i \in two : answer[2] = join(<<Space>>, pop[i])

\* The dividers of k cuts, and the word-partitions of k + 1 parts they give.
KDividers(k) == {i \in DOMAIN dividers : Len(dividers[i]) = k}
KDividerWordPartitions(k) ==
    LET wps == dividers_to_word_partitions(word, dividers)
    IN  {i \in DOMAIN wps : Len(wps[i]) = k + 1}

====
